---- MODULE Spec2Model ----
(***************************************************************************)
(* Model of the preference-labeling tool (scripts/label_preferences.py)    *)
(* and of the formatter and splitter (scripts/format_dataset.py).          *)
(*                                                                         *)
(* Indices into data are 0-based as in the Python code; the TLA+ sequence  *)
(* data is 1-based, so data[idx] of the code is data[idx + 1] here.        *)
(***************************************************************************)
EXTENDS Integers, Sequences, FiniteSets, Bags, TLC

VARIABLES
    data,                     \* self.data: the pair file, loaded by __init__
    progress_file,            \* the file <input>_labeled.json on disk
    pc,                       \* where the labeling process is
    labeled_data,             \* self.labeled_data
    current_idx,              \* self.current_idx
    idx,                      \* label_session: loop variable
    stop,                     \* label_session: min(end_idx, len(self.data))
    already_labeled_prompts,  \* label_session: the skip-set
    labeled_this_session,     \* label_session: local counter
    skipped_count,            \* label_session: local counter
    auto_save_frequency,      \* label_session: parameter
    num_examples,             \* label_session: parameter
    preference,               \* label_session: the choice get_preference returned
    summary,                  \* what the last session printed as its summary
    stopped_at,               \* index at which the last session of this process
                              \* left its loop (history of the run, no field)
    fmt_in,                   \* format_dataset: the labeled list given to the formatter
    fmt_include,              \* format_dataset: include_equal
    formatted,                \* format_dataset: result of convert_to_standard_format
    fmt_pc,                   \* where the formatting run is
    output_dir,               \* format_dataset: the directory fitness_dataset/
    split_args,               \* create_splits: arguments of the last call
    splits,                   \* create_splits: result of the last call
    prev_args,                \* create_splits: arguments of the call before
    prev_splits,              \* create_splits: result of the call before
    np_random,                \* numpy's process-wide random state
    gen_pc,                   \* where generate_all_response_pairs is
    prompts,                  \* generate_all_response_pairs: prompts, once cut
    gen_i,                    \* generate_all_response_pairs: loop counter i
    response_pairs,           \* generate_all_response_pairs: local list
    failed_prompts,           \* generate_all_response_pairs: local list
    checkpoint_frequency,     \* generate_all_response_pairs: parameter
    checkpoint_files,         \* the files <output>_checkpoint_<i>.json on disk
    output_file               \* the file fitness_response_pairs.json on disk

label_vars == <<data, progress_file, pc, labeled_data, current_idx, idx, stop,
                already_labeled_prompts, labeled_this_session, skipped_count,
                auto_save_frequency, num_examples, preference, summary,
                stopped_at>>
fmt_vars == <<fmt_in, fmt_include, formatted, fmt_pc, output_dir>>
split_vars == <<split_args, splits, prev_args, prev_splits, np_random>>
gen_vars == <<gen_pc, prompts, gen_i, response_pairs, failed_prompts,
              checkpoint_frequency, checkpoint_files, output_file>>
vars == <<label_vars, fmt_vars, split_vars, gen_vars>>

----------------------------------------------------------------------------
(* Bounds of the model *)

MaxData == 2

SmallAutoSave == 1

(* Program constants *)

DefaultAutoSaveFrequency == 5

DefaultModel == "claude-sonnet-4-20250514"

None == "None"

----------------------------------------------------------------------------
(* The pair file: what generate_all_response_pairs writes *)

Min(a, b) == IF a <= b THEN a ELSE b

PairMetadata(i) ==
    [temp_a |-> "0.7", temp_b |-> "1.0", model |-> DefaultModel,
     generated_at |-> "t_gen", prompt_index |-> i]

Pair(p, ra, rb, i) ==
    [prompt |-> p, response_a |-> ra, response_b |-> rb, chosen |-> None,
     metadata |-> PairMetadata(i)]

\* prompt, response_a, response_b of the pairs the inputs are drawn from
PairShapes ==
    << <<"Q1", "Short.", "Long answer...">>,
       <<"Q2", "Long answer...", "Short.">>,
       <<"Q3", "Same.", "Same.">>,
       <<"Q4", "Long answer...", "Same.">> >>

\* The pair files of the model: up to MaxData pairs, prompts repeated or not,
\* a prompt first used only after the prompts before it in PairShapes (the
\* tool compares prompts only for equality).
InOrderOfFirstUse(s) ==
    \A i \in DOMAIN s : s[i] = 1 \/ \E j \in 1..(i - 1) : s[j] >= s[i] - 1

DataFiles ==
    UNION { { [i \in 1..n |-> Pair(PairShapes[s[i]][1], PairShapes[s[i]][2],
                                   PairShapes[s[i]][3], i - 1)] :
                s \in { t \in [1..n -> 1..Min(n, Len(PairShapes))] :
                          InOrderOfFirstUse(t) } } : n \in 0..MaxData }

Prompts(records) == { records[k].prompt : k \in 1..Len(records) }

----------------------------------------------------------------------------
(* The progress file *)

NoFile == [state |-> "absent", records |-> << >>]

ValidFile(records) == [state |-> "valid", records |-> records]

TruncatedFile == [state |-> "truncated", records |-> << >>]

\* save_progress: open(progress_file, 'w') then json.dump of the whole list.
\* io is what the filesystem does: the write succeeds, open() raises (file
\* untouched), or the write raises after open() truncated the file.
SaveProgress(file, records, io) ==
    CASE io = "ok"          -> ValidFile(records)
      [] io = "open_fails"  -> file
      [] io = "write_fails" -> TruncatedFile

----------------------------------------------------------------------------
(* label_session: the pieces of the loop body *)

\* LabeledItem with the branch for b copied from the branch for a
LabeledItemCopiedBranch(item, pref, reasoning) ==
    LET stamped == [reasoning |-> reasoning, labeled_at |-> "t_label",
                    labeler |-> "primary"]
    IN  CASE pref \in {"a", "b"} ->
               [item EXCEPT !.chosen = item.response_a]
                 @@ [rejected |-> item.response_b, preference |-> pref] @@ stamped
          [] OTHER ->
               [item EXCEPT !.chosen = item.response_a]
                 @@ [rejected |-> item.response_b, equal |-> TRUE,
                     preference |-> "equal"] @@ stamped

\* LabeledItem that sets the equal key in every branch
LabeledItemEqualInEveryBranch(item, pref, reasoning) ==
    LET stamped == [reasoning |-> reasoning, labeled_at |-> "t_label",
                    labeler |-> "primary"]
    IN  CASE pref = "a" ->
               [item EXCEPT !.chosen = item.response_a]
                 @@ [rejected |-> item.response_b, equal |-> FALSE,
                     preference |-> "a"] @@ stamped
          [] pref = "b" ->
               [item EXCEPT !.chosen = item.response_b]
                 @@ [rejected |-> item.response_a, equal |-> FALSE,
                     preference |-> "b"] @@ stamped
          [] OTHER ->
               [item EXCEPT !.chosen = item.response_a]
                 @@ [rejected |-> item.response_b, equal |-> TRUE,
                     preference |-> "equal"] @@ stamped

\* lines 131-151: the record made from the pair and the reviewer's answers
LabeledItem(item, pref, reasoning) ==
    LET stamped == [reasoning |-> reasoning, labeled_at |-> "t_label",
                    labeler |-> "primary"]
    IN  CASE pref = "a" ->
               [item EXCEPT !.chosen = item.response_a]
                 @@ [rejected |-> item.response_b, preference |-> "a"] @@ stamped
          [] pref = "b" ->
               [item EXCEPT !.chosen = item.response_b]
                 @@ [rejected |-> item.response_a, preference |-> "b"] @@ stamped
          [] OTHER ->
               [item EXCEPT !.chosen = item.response_a]
                 @@ [rejected |-> item.response_b, equal |-> TRUE,
                     preference |-> "equal"] @@ stamped

\* a record put in front of the list
AppendRecordInFront(records, item) == <<item>> \o records

\* line 153: self.labeled_data.append(item)
AppendRecord(records, item) == Append(records, item)

\* a skip-set that is always empty
SkipSetEmpty(records) == {}

\* line 78: the skip-set, taken once when the session starts
SkipSet(records) == Prompts(records)

\* NextIdx without the test of line 109
NextIdxNoSkip(from, bound, skipset, pairs) == IF from >= bound THEN bound ELSE from

\* lines 107-111: the first index from `from` on that the loop does not pass
\* over as already labeled, or `bound` when the range is exhausted
RECURSIVE NextIdx(_, _, _, _)
NextIdx(from, bound, skipset, pairs) ==
    IF from >= bound THEN bound
    ELSE IF pairs[from + 1].prompt \in skipset
         THEN NextIdx(from + 1, bound, skipset, pairs)
         ELSE from

\* an end index one too far
EndIdxOneMore(start_idx, num, pairs) ==
    IF num.kind = "none" THEN Len(pairs) ELSE start_idx + num.value + 1

\* line 81 and the range of line 107
EndIdx(start_idx, num, pairs) ==
    IF num.kind = "none" THEN Len(pairs) ELSE start_idx + num.value

\* A line typed by the reviewer: its letters in lower case without the
\* surrounding blanks, whether it was typed in capitals, whether it was typed
\* with surrounding blanks.
RawLines(texts) == [text : texts, shouted : BOOLEAN, padded : BOOLEAN]

\* get_preference, line 40: .lower().strip() of the line read
Normalize(raw) == raw.text

\* __init__, line 18: .lower() of the line read, blanks kept
LoadRequested(raw) == raw.text = "y" /\ ~raw.padded

\* get_preference that takes whatever was typed
IsValidChoiceAny(choice) == TRUE

\* get_preference, line 41
IsValidChoice(choice) == choice \in {"a", "b", "equal", "skip", "q", "quit"}

\* IsQuit that knows the short form only
IsQuitShortOnly(choice) == choice = "q"

\* a skip that leaves the loop as quit does
IsQuitOrSkip(choice) == choice \in {"q", "quit", "skip"}

\* line 116
IsQuit(choice) == choice \in {"q", "quit"}

\* a skip that is not counted
SkippedAfterSkipSame(skipped) == skipped

\* line 121: skipped_count += 1
SkippedAfterSkip(skipped) == skipped + 1

\* no checkpoint at all
AutoSaveDueNever(count, frequency) == FALSE

\* AutoSaveDue one label late
AutoSaveDueLate(count, frequency) == count % frequency = 1

\* line 159
AutoSaveDue(count, frequency) == count % frequency = 0

\* lines 166-179: the figures of the printed summary
SessionSummary(count, skipped, records, pairs) ==
    [ran |-> TRUE, labeled_this_session |-> count, skipped |-> skipped,
     total |-> Len(records), remaining |-> Len(pairs) - Len(records)]

NoSummary ==
    [ran |-> FALSE, labeled_this_session |-> 0, skipped |-> 0, total |-> 0,
     remaining |-> 0]

\* FinalSave that writes nothing
FinalSaveMissing(file, records, io) == file

\* line 164
FinalSave(file, records, io) == SaveProgress(file, records, io)

\* line 160
AutoSave(file, records, io) == SaveProgress(file, records, io)

----------------------------------------------------------------------------
(* What the reviewer and the filesystem can do *)

Line(text, shouted, padded) == [text |-> text, shouted |-> shouted, padded |-> padded]

RawChoices ==
    { Line(t, FALSE, FALSE) : t \in {"a", "b", "equal", "skip", "q", "quit", "maybe", ""} }
      \cup {Line("b", TRUE, FALSE), Line("quit", TRUE, TRUE), Line("maybe", FALSE, TRUE)}

\* the free text typed as reasoning is copied and never inspected
Reasonings == {""}

LoadAnswers == RawLines({"y"}) \cup {Line("n", FALSE, FALSE), Line("", FALSE, FALSE)}

IntInput(k) == [kind |-> "int", value |-> k]

AllRemaining == [kind |-> "none", value |-> 0]

JunkInput == [kind |-> "junk", value |-> 0]

\* what int(num_input) of line 270 can be given
NumInputs == {AllRemaining, JunkInput} \cup { IntInput(k) : k \in -1..MaxData }

\* num_examples of a direct call
NumExamples == {AllRemaining} \cup { IntInput(k) : k \in 0..MaxData }

AutoSaveFrequencies == {SmallAutoSave, DefaultAutoSaveFrequency}

IoOk == {"ok"}

IoAny == {"ok", "open_fails", "write_fails"}

----------------------------------------------------------------------------
(* The labeling process *)

LocalsAtRest ==
    /\ idx' = 0
    /\ stop' = 0
    /\ already_labeled_prompts' = {}
    /\ labeled_this_session' = 0
    /\ skipped_count' = 0
    /\ auto_save_frequency' = 0
    /\ num_examples' = AllRemaining

\* An exception nobody catches: the interpreter exits and the object is gone.
Crash ==
    /\ pc' = "crashed"
    /\ labeled_data' = << >>
    /\ current_idx' = 0
    /\ preference' = None
    /\ summary' = NoSummary
    /\ stopped_at' = 0
    /\ LocalsAtRest

\* lines 163-179: the final save and the summary; label_session returns to
\* the menu loop of __main__.  `at` is the index at which the loop was left.
EndSession(at, cur, records, file, count, skipped, choice, io) ==
    /\ progress_file' = FinalSave(file, records, io)
    /\ IF io = "ok"
       THEN /\ pc' = "menu"
            /\ current_idx' = cur
            /\ labeled_data' = records
            /\ summary' = SessionSummary(count, skipped, records, data)
            /\ preference' = choice
            /\ stopped_at' = at
            /\ LocalsAtRest
       ELSE Crash

\* lines 107-113: go on with the loop from index `from`, up to the next
\* display_pair and its question, or to the end of the range.
RunLoop(from, bound, num, skipset, cur, records, file, count, skipped, frequency, choice, io) ==
    LET j == NextIdx(from, bound, skipset, data)
    IN  IF j < bound
        THEN /\ pc' = "await_pref"
             /\ idx' = j
             /\ stop' = bound
             /\ already_labeled_prompts' = skipset
             /\ current_idx' = cur
             /\ labeled_data' = records
             /\ progress_file' = file
             /\ labeled_this_session' = count
             /\ skipped_count' = skipped
             /\ auto_save_frequency' = frequency
             /\ num_examples' = num
             /\ preference' = choice
             /\ stopped_at' = 0
             /\ UNCHANGED summary
        ELSE EndSession(IF from <= bound THEN bound ELSE from, cur, records, file,
                        count, skipped, choice, io)

\* __init__, lines 8-16
\* (the model follows the formatting run as the last stage: the tool is not
\* started again once the progress file has been formatted)
Construct ==
    /\ pc \in {"not_running", "exited", "crashed"}
    /\ fmt_pc = "idle"
    /\ labeled_data' = << >>
    /\ current_idx' = 0
    /\ pc' = IF progress_file.state # "absent" THEN "ask_load" ELSE "menu"
    /\ summary' = NoSummary
    /\ stopped_at' = 0
    /\ preference' = None
    /\ LocalsAtRest
    /\ UNCHANGED <<data, progress_file, fmt_vars, split_vars, gen_vars>>

\* __init__, lines 17-21
AnswerLoad(answer) ==
    /\ pc = "ask_load"
    /\ IF LoadRequested(answer)
       THEN IF progress_file.state = "valid"
            THEN /\ labeled_data' = progress_file.records
                 /\ pc' = "menu"
                 /\ UNCHANGED <<current_idx, idx, stop, already_labeled_prompts,
                                labeled_this_session, skipped_count,
                                auto_save_frequency, num_examples, preference,
                                summary, stopped_at>>
            ELSE Crash
       ELSE /\ pc' = "menu"
            /\ UNCHANGED <<labeled_data, current_idx, idx, stop,
                           already_labeled_prompts, labeled_this_session,
                           skipped_count, auto_save_frequency, num_examples,
                           preference, summary, stopped_at>>
    /\ UNCHANGED <<data, progress_file, fmt_vars, split_vars, gen_vars>>

\* label_session, lines 77-113: from the call to the first question (the
\* "Press Enter to start labeling" line of 105 changes nothing)
LabelSession(start_idx, num, frequency, io) ==
    /\ RunLoop(start_idx,
               Min(EndIdx(start_idx, num, data), Len(data)), num,
               SkipSet(labeled_data), start_idx, labeled_data, progress_file,
               0, 0, frequency, None, io)
    /\ UNCHANGED <<data, fmt_vars, split_vars, gen_vars>>

\* __main__, lines 267-276: menu choice 1
MenuLabel(num_input, io) ==
    /\ pc = "menu"
    /\ IF num_input.kind = "junk"
       THEN /\ Crash
            /\ UNCHANGED <<data, progress_file, fmt_vars, split_vars, gen_vars>>
       ELSE LabelSession(Len(labeled_data), num_input, DefaultAutoSaveFrequency, io)

\* label_session called by a program that imports the class
CallLabelSession(start_idx, num, frequency, io) ==
    /\ pc = "menu"
    /\ LabelSession(start_idx, num, frequency, io)

\* get_preference and lines 114-123
AnswerPreference(raw, io) ==
    /\ pc = "await_pref"
    /\ LET choice == Normalize(raw)
       IN  IF ~IsValidChoice(choice)
           THEN UNCHANGED label_vars
           ELSE IF IsQuit(choice)
           THEN EndSession(idx, current_idx, labeled_data, progress_file,
                           labeled_this_session, skipped_count, choice, io)
           ELSE IF choice = "skip"
           THEN RunLoop(idx + 1, stop, num_examples, already_labeled_prompts, current_idx,
                        labeled_data, progress_file, labeled_this_session,
                        SkippedAfterSkip(skipped_count), auto_save_frequency,
                        choice, io)
           ELSE /\ pc' = "await_reason"
                /\ preference' = choice
                /\ UNCHANGED <<progress_file, labeled_data, current_idx, idx,
                               stop, already_labeled_prompts, labeled_this_session,
                               skipped_count, auto_save_frequency, num_examples,
                               summary, stopped_at>>
    /\ UNCHANGED <<data, fmt_vars, split_vars, gen_vars>>

\* get_reasoning and lines 126-161, then the loop up to the next question
AnswerReasoning(reasoning, io_auto, io) ==
    /\ pc = "await_reason"
    /\ LET item == LabeledItem(data[idx + 1], preference, reasoning)
           records == AppendRecord(labeled_data, item)
           count == labeled_this_session + 1
       IN  IF AutoSaveDue(count, auto_save_frequency)
           THEN IF io_auto = "ok"
                THEN RunLoop(idx + 1, stop, num_examples, already_labeled_prompts, current_idx,
                             records, AutoSave(progress_file, records, io_auto),
                             count, skipped_count, auto_save_frequency,
                             preference, io)
                ELSE /\ progress_file' = AutoSave(progress_file, records, io_auto)
                     /\ Crash
           ELSE RunLoop(idx + 1, stop, num_examples, already_labeled_prompts, current_idx,
                        records, progress_file, count, skipped_count,
                        auto_save_frequency, preference, io)
    /\ UNCHANGED <<data, fmt_vars, split_vars, gen_vars>>

\* show_statistics, lines 186-211: prints, changes nothing.  self.data[0] is
\* read only when some record prefers a or b, and then data is not empty.
MenuShowStatistics ==
    /\ pc = "menu"
    /\ UNCHANGED vars

\* __main__ lines 281-285 and review_labeled_samples: reads the progress file
MenuReview ==
    /\ pc = "menu"
    /\ IF progress_file.state = "truncated"
       THEN /\ Crash
            /\ UNCHANGED <<data, progress_file, fmt_vars, split_vars, gen_vars>>
       ELSE UNCHANGED vars

\* __main__ lines 287-289
MenuExit ==
    /\ pc = "menu"
    /\ pc' = "exited"
    /\ labeled_data' = << >>
    /\ current_idx' = 0
    /\ preference' = None
    /\ summary' = NoSummary
    /\ stopped_at' = 0
    /\ LocalsAtRest
    /\ UNCHANGED <<data, progress_file, fmt_vars, split_vars, gen_vars>>

----------------------------------------------------------------------------
(* format_dataset.py: convert_to_standard_format *)

\* dict.get(key, default)
Get(item, key, default) == IF key \in DOMAIN item THEN item[key] ELSE default

\* KeepItem that looks at the preference instead of the equal flag
KeepItemByPreference(item, include_equal) ==
    ~(Get(item, "preference", "unknown") = "equal" /\ ~include_equal)

\* line 56: the records that are not passed over
KeepItem(item, include_equal) == ~(Get(item, "equal", FALSE) /\ ~include_equal)

\* FormatItem with chosen and rejected taken from the other key
FormatItemSwapped(item) ==
    [prompt |-> item.prompt,
     chosen |-> item.rejected,
     rejected |-> item.chosen,
     metadata |->
        [preference |-> Get(item, "preference", "unknown"),
         reasoning |-> Get(item, "reasoning", ""),
         equal |-> Get(item, "equal", FALSE),
         labeled_at |-> Get(item, "labeled_at", ""),
         temp_a |-> item.metadata.temp_a,
         temp_b |-> item.metadata.temp_b,
         model |-> Get(item.metadata, "model", DefaultModel),
         domain |-> "fitness"]]

\* lines 59-73
FormatItem(item) ==
    [prompt |-> item.prompt,
     chosen |-> item.chosen,
     rejected |-> item.rejected,
     metadata |->
        [preference |-> Get(item, "preference", "unknown"),
         reasoning |-> Get(item, "reasoning", ""),
         equal |-> Get(item, "equal", FALSE),
         labeled_at |-> Get(item, "labeled_at", ""),
         temp_a |-> item.metadata.temp_a,
         temp_b |-> item.metadata.temp_b,
         model |-> Get(item.metadata, "model", DefaultModel),
         domain |-> "fitness"]]

\* the kept records projected in the opposite order
ConvertToStandardFormatReversed(records, include_equal) ==
    LET kept == SelectSeq(records, LAMBDA r : KeepItem(r, include_equal))
    IN  [j \in 1..Len(kept) |-> FormatItem(kept[Len(kept) + 1 - j])]

\* lines 52-83
RECURSIVE ConvertToStandardFormat(_, _)
ConvertToStandardFormat(records, include_equal) ==
    IF records = << >> THEN << >>
    ELSE IF KeepItem(Head(records), include_equal)
         THEN <<FormatItem(Head(records))>>
                \o ConvertToStandardFormat(Tail(records), include_equal)
         ELSE ConvertToStandardFormat(Tail(records), include_equal)

\* line 438: input(...).lower() == 'y'
IncludeEqualRequested(raw) == raw.text = "y" /\ ~raw.padded

IncludeAnswers == RawLines({"y", "n"})

----------------------------------------------------------------------------
(* format_dataset.py: create_splits.  train_test_split is scikit-learn's:  *)
(* n_test = ceil(test_size * n), n_train = n - n_test, a ValueError when   *)
(* test_size is not inside (0, 1) or n_train is 0; the samples are taken   *)
(* in the order of one permutation of 0..n-1 drawn from a generator that   *)
(* an integer random_state seeds afresh: test = the first n_test of it,    *)
(* train = the n_train after them.  The fractions are the decimal          *)
(* literals k/10, named by k; the products and the quotient of line 105    *)
(* are computed in double precision, as Python computes them.              *)

Tenth == 10

\* Python's float is the IEEE 754 double: 53 significant bits, every result
\* rounded to the nearest double, ties to the even one.  The significands
\* do not fit the integers of the checker, so a natural number is kept as
\* the sequence of its digits to the base BigBase, lowest digit first and
\* no zero digit at the top (zero is the empty sequence).
BigBase == 32768

\* BigBase = 2^LimbBits
LimbBits == 15

\* the significant bits of a double
MantissaBits == 53

RECURSIVE BigOfNat(_)
BigOfNat(k) ==
    IF k = 0 THEN << >> ELSE <<k % BigBase>> \o BigOfNat(k \div BigBase)

RECURSIVE BigToNat(_)
BigToNat(a) ==
    IF a = << >> THEN 0 ELSE Head(a) + BigBase * BigToNat(Tail(a))

RECURSIVE BigTrim(_)
BigTrim(a) ==
    IF a = << >> \/ a[Len(a)] # 0 THEN a ELSE BigTrim(SubSeq(a, 1, Len(a) - 1))

\* a * k + carry, for k and carry below BigBase
RECURSIVE BigMulSmall(_, _, _)
BigMulSmall(a, k, carry) ==
    IF a = << >> THEN BigOfNat(carry)
    ELSE LET digit == Head(a) * k + carry
         IN  <<digit % BigBase>> \o BigMulSmall(Tail(a), k, digit \div BigBase)

\* a - b - borrow, for a >= b + borrow
RECURSIVE BigSubDigits(_, _, _)
BigSubDigits(a, b, borrow) ==
    IF a = << >> THEN << >>
    ELSE LET digit == Head(a) - (IF b = << >> THEN 0 ELSE Head(b)) - borrow
             rest == IF b = << >> THEN << >> ELSE Tail(b)
         IN  IF digit < 0
             THEN <<digit + BigBase>> \o BigSubDigits(Tail(a), rest, 1)
             ELSE <<digit>> \o BigSubDigits(Tail(a), rest, 0)

BigSub(a, b) == BigTrim(BigSubDigits(a, b, 0))

\* a >= b
RECURSIVE BigGe(_, _)
BigGe(a, b) ==
    IF Len(a) # Len(b) THEN Len(a) > Len(b)
    ELSE IF a = << >> THEN TRUE
    ELSE IF a[Len(a)] # b[Len(b)] THEN a[Len(a)] > b[Len(b)]
    ELSE BigGe(SubSeq(a, 1, Len(a) - 1), SubSeq(b, 1, Len(b) - 1))

BigOdd(a) == a # << >> /\ Head(a) % 2 = 1

\* a div 2
RECURSIVE BigHalfDigits(_)
BigHalfDigits(a) ==
    IF a = << >> THEN << >>
    ELSE <<(Head(a) \div 2)
            + (IF Len(a) > 1 /\ a[2] % 2 = 1 THEN BigBase \div 2 ELSE 0)>>
         \o BigHalfDigits(Tail(a))

BigHalf(a) == BigTrim(BigHalfDigits(a))

RECURSIVE PowerOfTwo(_)
PowerOfTwo(k) == IF k = 0 THEN 1 ELSE 2 * PowerOfTwo(k - 1)

\* a * 2^k
RECURSIVE BigShiftLeft(_, _)
BigShiftLeft(a, k) ==
    IF a = << >> THEN a
    ELSE IF k >= LimbBits THEN <<0>> \o BigShiftLeft(a, k - LimbBits)
    ELSE BigMulSmall(a, PowerOfTwo(k), 0)

RECURSIVE NatBits(_)
NatBits(k) == IF k = 0 THEN 0 ELSE 1 + NatBits(k \div 2)

\* the number of bits of a
BigBits(a) ==
    IF a = << >> THEN 0 ELSE LimbBits * (Len(a) - 1) + NatBits(a[Len(a)])

\* a / 2^k: cut.q loses its cut.left lowest bits, whole digits first and
\* then bit by bit; guard is the last bit cut off and sticky whether a bit
\* below it was set
RECURSIVE BigShiftRight(_)
BigShiftRight(cut) ==
    IF cut.left = 0 THEN cut
    ELSE IF cut.q = << >>
    THEN [q |-> << >>, guard |-> FALSE, sticky |-> cut.guard \/ cut.sticky,
          left |-> 0]
    ELSE IF cut.left > LimbBits
    THEN BigShiftRight([q |-> Tail(cut.q), guard |-> FALSE,
                        sticky |-> cut.guard \/ cut.sticky \/ Head(cut.q) # 0,
                        left |-> cut.left - LimbBits])
    ELSE BigShiftRight([q |-> BigHalf(cut.q), guard |-> BigOdd(cut.q),
                        sticky |-> cut.guard \/ cut.sticky,
                        left |-> cut.left - 1])

\* a double is mant * 2^exp with mant of exactly MantissaBits bits, or zero
FloatZero == [mant |-> << >>, exp |-> 0]

\* the double nearest to (mant + rest) * 2^exp, where rest is in [0, 1) and
\* is not zero exactly when inexact holds (mant then has more than
\* MantissaBits bits): round to nearest, ties to even
FloatRound(mant, exp, inexact) ==
    LET bits == BigBits(mant)
    IN  IF bits = 0 THEN FloatZero
        ELSE IF bits <= MantissaBits
        THEN [mant |-> BigShiftLeft(mant, MantissaBits - bits),
              exp |-> exp - (MantissaBits - bits)]
        ELSE LET cut == BigShiftRight([q |-> mant, guard |-> FALSE,
                                       sticky |-> inexact,
                                       left |-> bits - MantissaBits])
                 up == cut.guard /\ (cut.sticky \/ BigOdd(cut.q))
                 rounded == IF up THEN BigMulSmall(cut.q, 1, 1) ELSE cut.q
             IN  IF BigBits(rounded) > MantissaBits
                 THEN [mant |-> BigHalf(rounded),
                       exp |-> exp + (bits - MantissaBits) + 1]
                 ELSE [mant |-> rounded, exp |-> exp + (bits - MantissaBits)]

\* long division, one quotient bit a step: the divisor, which starts as
\* the denominator times a power of two, is subtracted where it fits and
\* then halved
BigDivStep(d) ==
    LET fits == BigGe(d.rest, d.divisor)
    IN  [rest |-> IF fits THEN BigSub(d.rest, d.divisor) ELSE d.rest,
         divisor |-> BigHalf(d.divisor),
         q |-> BigMulSmall(d.q, 2, IF fits THEN 1 ELSE 0),
         left |-> d.left - 1]

BigDivEight(d) ==
    BigDivStep(BigDivStep(BigDivStep(BigDivStep(
        BigDivStep(BigDivStep(BigDivStep(BigDivStep(d))))))))

\* d.left steps, a multiple of eight
RECURSIVE BigDivSteps(_)
BigDivSteps(d) == IF d.left = 0 THEN d ELSE BigDivSteps(BigDivEight(d))

\* the double nearest to (a / b) * 2^exp for natural numbers a and b > 0:
\* a is scaled to give a quotient of MantissaBits + 2 or + 3 bits, which
\* MantissaBits + 3 = 56 steps find
FloatQuotient(a, b, exp) ==
    LET shift == BigBits(b) - BigBits(a) + MantissaBits + 2
        num == BigShiftLeft(a, IF shift > 0 THEN shift ELSE 0)
        den == BigShiftLeft(b, IF shift < 0 THEN 0 - shift ELSE 0)
        steps == MantissaBits + 3
        division == BigDivSteps([rest |-> num, q |-> << >>, left |-> steps,
                                 divisor |-> BigShiftLeft(den, steps - 1)])
    IN  IF a = << >> THEN FloatZero
        ELSE FloatRound(division.q, exp - shift, division.rest # << >>)

\* x / y for y # 0
FloatDiv(x, y) == FloatQuotient(x.mant, y.mant, x.exp - y.exp)

\* x * k for an integer k >= 0 (k itself is a double without rounding)
FloatTimes(x, k) ==
    FloatRound(BigTrim(BigMulSmall(x.mant, k, 0)), x.exp, FALSE)

\* 1 - x for 0 <= x <= 1
FloatOneMinus(x) ==
    IF x.mant = << >> THEN FloatQuotient(BigOfNat(1), BigOfNat(1), 0)
    ELSE FloatRound(BigSub(BigShiftLeft(BigOfNat(1), 0 - x.exp), x.mant),
                    x.exp, FALSE)

\* x <= 0 and x >= 1 for x >= 0
FloatIsZero(x) == x.mant = << >>

FloatAtLeastOne(x) == x.mant # << >> /\ x.exp + MantissaBits - 1 >= 0

\* math.ceil(x) for 0 <= x < 2^31
FloatCeil(x) ==
    IF x.mant = << >> THEN 0
    ELSE IF x.exp >= 0 THEN BigToNat(BigShiftLeft(x.mant, x.exp))
    ELSE LET cut == BigShiftRight([q |-> x.mant, guard |-> FALSE,
                                   sticky |-> FALSE, left |-> 0 - x.exp])
         IN  BigToNat(cut.q) + (IF cut.guard \/ cut.sticky THEN 1 ELSE 0)

\* the double that the literal k/10 denotes
FloatLiteral == [k \in 0..Tenth |-> FloatQuotient(BigOfNat(k), BigOfNat(Tenth), 0)]

\* line 105: val_proportion = val_size / (1 - test_size), for the
\* test_size below 1 that the first split lets through
ValProportion ==
    [test_size \in 0..(Tenth - 1), val_size \in 0..Tenth |->
        FloatDiv(FloatLiteral[val_size], FloatOneMinus(FloatLiteral[test_size]))]

\* the length of the longest list that is split: with the fractions 0.3
\* and 0.1 the rounding of line 105 shows on 10 records
LongSplit == 10

\* the pseudo-random generator: a linear congruential one stands for numpy's
RngModulus == 65537

RngMultiplier == 75

RngIncrement == 74

RngNext(state) == (RngMultiplier * state + RngIncrement) % RngModulus

\* RandomState(seed)
RngSeeded(seed) == RngNext(seed % RngModulus)

Swap(seq, i, j) == [seq EXCEPT ![i] = seq[j], ![j] = seq[i]]

\* rng.permutation(n): the shuffle of <<1, ..., n>>, last position first
RECURSIVE Shuffle(_, _, _)
Shuffle(seq, i, state) ==
    IF i <= 1 THEN [perm |-> seq, state |-> state]
    ELSE LET drawn == RngNext(state)
         IN  Shuffle(Swap(seq, i, (drawn % i) + 1), i - 1, drawn)

Permutation(n, state) == Shuffle([k \in 1..n |-> k], n, state)

SplitFailed == [ok |-> FALSE, train |-> << >>, test |-> << >>]

\* TrainTestSplit whose train part starts one position early
TrainTestSplitOverlap(records, test_size, state) ==
    LET n == Len(records)
        n_test == FloatCeil(FloatTimes(test_size, n))
        n_train == n - n_test
        perm == Permutation(n, state).perm
    IN  IF FloatIsZero(test_size) \/ FloatAtLeastOne(test_size) \/ n_train <= 0
        THEN SplitFailed
        ELSE [ok |-> TRUE,
              train |-> [k \in 1..n_train |-> records[perm[n_test + k - 1]]],
              test |-> [k \in 1..n_test |-> records[perm[k]]]]

\* train_test_split(records, test_size = test_size, random_state = state)
TrainTestSplit(records, test_size, state) ==
    LET n == Len(records)
        n_test == FloatCeil(FloatTimes(test_size, n))
        n_train == n - n_test
        perm == Permutation(n, state).perm
    IN  IF FloatIsZero(test_size) \/ FloatAtLeastOne(test_size) \/ n_train <= 0
        THEN SplitFailed
        ELSE [ok |-> TRUE,
              train |-> [k \in 1..n_train |-> records[perm[n_test + k]]],
              test |-> [k \in 1..n_test |-> records[perm[k]]]]

\* CreateSplits with random_state left out of the two calls: the shuffles
\* draw from the process-wide generator and advance it
CreateSplitsUnseeded(records, test_size, val_size, random_seed, global_state) ==
    LET first == TrainTestSplit(records, FloatLiteral[test_size], global_state)
        after_first == Permutation(Len(records), global_state).state
        second == TrainTestSplit(first.train,
                                 ValProportion[test_size, val_size],
                                 RngNext(after_first))
    IN  [splits |->
            IF first.ok /\ second.ok
            THEN [ok |-> TRUE, train |-> second.train,
                  validation |-> second.test, test |-> first.test]
            ELSE [ok |-> FALSE, train |-> << >>, validation |-> << >>,
                  test |-> << >>],
         rng |-> RngNext(RngNext(after_first))]

\* create_splits, lines 96-115; test_size and val_size in tenths.  The
\* result carries the process-wide random state after the call.
CreateSplits(records, test_size, val_size, random_seed, global_state) ==
    LET first == TrainTestSplit(records, FloatLiteral[test_size],
                                RngSeeded(random_seed))
        second == TrainTestSplit(first.train,
                                 ValProportion[test_size, val_size],
                                 RngSeeded(random_seed))
    IN  [splits |->
            IF first.ok /\ second.ok
            THEN [ok |-> TRUE, train |-> second.train,
                  validation |-> second.test, test |-> first.test]
            ELSE [ok |-> FALSE, train |-> << >>, validation |-> << >>,
                  test |-> << >>],
         rng |-> global_state]

NoArgs == [test_size |-> 0, val_size |-> 0, random_seed |-> 0, called |-> FALSE]

NoSplits == [ok |-> FALSE, train |-> << >>, validation |-> << >>, test |-> << >>]

----------------------------------------------------------------------------
(* format_dataset.py: __main__ *)

NoOutput == [written |-> FALSE, splits |-> NoSplits, card |-> FALSE]

\* save_splits and create_dataset_card, lines 127-150 and 449-453: the three
\* lists as .jsonl and .json files, and README.md
SaveSplits(result) == [written |-> TRUE, splits |-> result, card |-> TRUE]

\* __main__ of format_dataset.py, lines 430-456, run on the progress file
\* once the labeling process has ended.  load_labeled_data raises when the
\* file is missing or cut short; analyze_labels divides by the number of
\* records (line 25), before the question of line 438 is asked.  The
\* formatting run then calls create_splits(formatted_data, 0.1, 0.1, 42),
\* whose exception nobody catches, and writes the files.
FormatMain(raw) ==
    /\ pc = "exited"
    /\ fmt_pc = "idle"
    /\ fmt_in' = progress_file.records
    /\ IF progress_file.state # "valid" \/ progress_file.records = << >>
       THEN /\ fmt_pc' = "crashed"
            /\ formatted' = << >>
            /\ UNCHANGED <<fmt_include, output_dir, split_vars>>
       ELSE LET include_equal == IncludeEqualRequested(raw)
                formatted_data == ConvertToStandardFormat(progress_file.records,
                                                          include_equal)
                result == CreateSplits(formatted_data, 1, 1, 42, np_random)
            IN  /\ fmt_include' = include_equal
                /\ formatted' = formatted_data
                /\ IF formatted_data = << >>
                   THEN /\ fmt_pc' = "no_data"
                        /\ UNCHANGED <<output_dir, split_vars>>
                   ELSE /\ fmt_pc' = "formatted"
                        /\ split_args' = [test_size |-> 1, val_size |-> 1,
                                          random_seed |-> 42, called |-> TRUE]
                        /\ splits' = result.splits
                        /\ np_random' = result.rng
                        /\ output_dir' = IF result.splits.ok
                                         THEN SaveSplits(result.splits)
                                         ELSE output_dir
                        /\ UNCHANGED <<prev_args, prev_splits>>
    /\ UNCHANGED <<label_vars, gen_vars>>

----------------------------------------------------------------------------
(* The labeling tool followed by the formatting run *)

InitialRandomState == 1

GenIdle ==
    /\ gen_pc = "idle"
    /\ prompts = << >>
    /\ gen_i = 0
    /\ response_pairs = << >>
    /\ failed_prompts = << >>
    /\ checkpoint_frequency = 0
    /\ checkpoint_files = {}
    /\ output_file = NoFile

LabelIdle ==
    /\ progress_file = NoFile
    /\ pc = "not_running"
    /\ labeled_data = << >>
    /\ current_idx = 0
    /\ idx = 0
    /\ stop = 0
    /\ already_labeled_prompts = {}
    /\ labeled_this_session = 0
    /\ skipped_count = 0
    /\ auto_save_frequency = 0
    /\ num_examples = AllRemaining
    /\ preference = None
    /\ summary = NoSummary
    /\ stopped_at = 0

SplitIdle ==
    /\ split_args = NoArgs
    /\ splits = NoSplits
    /\ prev_args = NoArgs
    /\ prev_splits = NoSplits
    /\ np_random = InitialRandomState

Init ==
    /\ data \in DataFiles
    /\ LabelIdle
    /\ fmt_in = << >>
    /\ fmt_include = FALSE
    /\ formatted = << >>
    /\ fmt_pc = "idle"
    /\ output_dir = NoOutput
    /\ SplitIdle
    /\ GenIdle

Next ==
    \/ Construct
    \/ \E answer \in LoadAnswers : AnswerLoad(answer)
    \/ \E num \in NumInputs : MenuLabel(num, "ok")
    \/ \E start_idx \in 0..Len(data), num \in NumExamples,
          frequency \in AutoSaveFrequencies :
            CallLabelSession(start_idx, num, frequency, "ok")
    \/ \E raw \in RawChoices : AnswerPreference(raw, "ok")
    \/ \E reasoning \in Reasonings : AnswerReasoning(reasoning, "ok", "ok")
    \/ MenuShowStatistics
    \/ MenuReview
    \/ MenuExit
    \/ \E raw \in IncludeAnswers : FormatMain(raw)

Spec == Init /\ [][Next]_vars

----------------------------------------------------------------------------
(* The same tool on a filesystem whose writes can fail *)

NextFault ==
    \/ Construct
    \/ \E answer \in LoadAnswers : AnswerLoad(answer)
    \/ \E num \in NumInputs, io \in IoAny : MenuLabel(num, io)
    \/ \E start_idx \in 0..Len(data), num \in NumExamples,
          frequency \in AutoSaveFrequencies, io \in IoAny :
            CallLabelSession(start_idx, num, frequency, io)
    \/ \E raw \in RawChoices, io \in IoAny : AnswerPreference(raw, io)
    \/ \E reasoning \in Reasonings, io_auto \in IoAny, io \in IoAny :
            AnswerReasoning(reasoning, io_auto, io)
    \/ MenuShowStatistics
    \/ MenuReview
    \/ MenuExit

SpecFault == Init /\ [][NextFault]_vars

----------------------------------------------------------------------------
(* One run of the tool with a reviewer who goes on answering: at a          *)
(* preference question a recognized choice is typed sooner or later, and    *)
(* every reasoning question is answered.                                    *)

NextSession ==
    \/ Construct
    \/ \E num \in NumInputs : MenuLabel(num, "ok")
    \/ \E start_idx \in 0..Len(data), num \in NumExamples,
          frequency \in AutoSaveFrequencies :
            CallLabelSession(start_idx, num, frequency, "ok")
    \/ \E raw \in RawChoices : AnswerPreference(raw, "ok")
    \/ \E reasoning \in Reasonings : AnswerReasoning(reasoning, "ok", "ok")

SpecSession ==
    /\ Init
    /\ [][NextSession]_vars
    /\ WF_vars(\E raw \in RawChoices : AnswerPreference(raw, "ok"))
    /\ WF_vars(\E reasoning \in Reasonings : AnswerReasoning(reasoning, "ok", "ok"))

----------------------------------------------------------------------------
(* The tool as `python label_preferences.py` runs it: every session is      *)
(* started by menu choice 1.                                                *)

NextMenu ==
    \/ Construct
    \/ \E answer \in LoadAnswers : AnswerLoad(answer)
    \/ \E num \in NumInputs : MenuLabel(num, "ok")
    \/ \E raw \in RawChoices : AnswerPreference(raw, "ok")
    \/ \E reasoning \in Reasonings : AnswerReasoning(reasoning, "ok", "ok")
    \/ MenuShowStatistics
    \/ MenuReview
    \/ MenuExit

SpecMenu == Init /\ [][NextMenu]_vars

----------------------------------------------------------------------------
(* convert_to_standard_format applied to labeled lists of bounded length *)

MaxFormat == 3

\* a record of another labeling tool: none of the optional keys
BareItem ==
    [prompt |-> "Q5", chosen |-> "Short.", rejected |-> "Same.",
     metadata |-> [temp_a |-> "0.7", temp_b |-> "1.0"]]

LabeledPool ==
    { LabeledItem(Pair("Q1", "Short.", "Long answer...", 0), "a", ""),
      LabeledItem(Pair("Q2", "Long answer...", "Short.", 1), "b", "clearer"),
      LabeledItem(Pair("Q3", "Same.", "Same.", 2), "equal", ""),
      BareItem,
      BareItem @@ [equal |-> TRUE] }

SeqsUpTo(pool, n) == UNION { [1..k -> pool] : k \in 0..n }

InitFormat ==
    /\ data = << >>
    /\ LabelIdle
    /\ fmt_in \in SeqsUpTo(LabeledPool, MaxFormat)
    /\ fmt_include = FALSE
    /\ formatted = << >>
    /\ fmt_pc = "idle"
    /\ output_dir = NoOutput
    /\ SplitIdle
    /\ GenIdle

\* convert_to_standard_format(data, include_equal)
FormatCall(include_equal) ==
    /\ fmt_include' = include_equal
    /\ formatted' = ConvertToStandardFormat(fmt_in, include_equal)
    /\ fmt_pc' = "formatted"
    /\ UNCHANGED <<fmt_in, output_dir, label_vars, split_vars, gen_vars>>

NextFormat == \E include_equal \in BOOLEAN : FormatCall(include_equal)

SpecFormat == InitFormat /\ [][NextFormat]_vars

----------------------------------------------------------------------------
(* create_splits applied to canonical lists of bounded length *)

MaxSplit == 3

CanonicalPool ==
    { FormatItem(LabeledItem(Pair("Q1", "Short.", "Long answer...", 0), "a", "")),
      FormatItem(LabeledItem(Pair("Q2", "Long answer...", "Short.", 1), "b", "")),
      FormatItem(BareItem) }

\* a list of n canonical records, the pool's three in turn
CanonicalList(n) ==
    [k \in 1..n |->
        IF k % 3 = 1
        THEN FormatItem(LabeledItem(Pair("Q1", "Short.", "Long answer...", 0), "a", ""))
        ELSE IF k % 3 = 2
        THEN FormatItem(LabeledItem(Pair("Q2", "Long answer...", "Short.", 1), "b", ""))
        ELSE FormatItem(BareItem)]

TestSizes == {1, 3, 5}

ValSizes == {1, 5}

Seeds == {0, 42}

InitSplit ==
    /\ data = << >>
    /\ LabelIdle
    /\ fmt_in = << >>
    /\ fmt_include = FALSE
    /\ formatted \in SeqsUpTo(CanonicalPool, MaxSplit) \cup {CanonicalList(LongSplit)}
    /\ fmt_pc = "formatted"
    /\ output_dir = NoOutput
    /\ SplitIdle
    /\ GenIdle

\* create_splits(formatted, test_size, val_size, random_seed)
SplitCall(test_size, val_size, random_seed) ==
    LET result == CreateSplits(formatted, test_size, val_size, random_seed, np_random)
    IN  /\ prev_args' = split_args
        /\ prev_splits' = splits
        /\ split_args' = [test_size |-> test_size, val_size |-> val_size,
                          random_seed |-> random_seed, called |-> TRUE]
        /\ splits' = result.splits
        /\ np_random' = result.rng
        /\ UNCHANGED <<label_vars, fmt_vars, gen_vars>>

NextSplit ==
    \E test_size \in TestSizes, val_size \in ValSizes, random_seed \in Seeds :
        SplitCall(test_size, val_size, random_seed)

SpecSplit == InitSplit /\ [][NextSplit]_vars

----------------------------------------------------------------------------
(* generate_responses.py: generate_all_response_pairs *)

MaxPrompts == 3

PromptTexts == {"Q1", "Q2"}

PromptLists == SeqsUpTo(PromptTexts, MaxPrompts)

\* max_prompts: None, or the int typed at the question of __main__
MaxPromptsInputs == {AllRemaining} \cup { IntInput(k) : k \in {-1, 0, 1, 2} }

\* 10 is the value __main__ passes
CheckpointFrequencies == {2, 10}

\* What the two calls of client.messages.create do for one prompt: both
\* answer, the first raises (the second is not made), or the second raises.
ApiOutcomes ==
    { [a_ok |-> TRUE, b_ok |-> TRUE, response_a |-> "Short.",
       response_b |-> "Long answer..."],
      [a_ok |-> TRUE, b_ok |-> TRUE, response_a |-> "Same.",
       response_b |-> "Same."],
      [a_ok |-> FALSE, b_ok |-> TRUE, response_a |-> None, response_b |-> None],
      [a_ok |-> TRUE, b_ok |-> FALSE, response_a |-> "Short.",
       response_b |-> None] }

NoResponses == [ok |-> FALSE, response_a |-> None, response_b |-> None]

\* generate_response_pair, lines 47-89: None when either call raises
GenerateResponsePair(outcome) ==
    IF ~outcome.a_ok THEN NoResponses
    ELSE IF ~outcome.b_ok THEN NoResponses
    ELSE [ok |-> TRUE, response_a |-> outcome.response_a,
          response_b |-> outcome.response_b]

\* prompts[:max_prompts] of Python
SliceTo(seq, m) ==
    IF m >= 0 THEN SubSeq(seq, 1, Min(m, Len(seq)))
    ELSE SubSeq(seq, 1, IF Len(seq) + m > 0 THEN Len(seq) + m ELSE 0)

\* lines 107-108: `if max_prompts:` is false for None and for 0
LimitPrompts(all_prompts, max_prompts) ==
    IF max_prompts.kind = "none" \/ max_prompts.value = 0
    THEN all_prompts
    ELSE SliceTo(all_prompts, max_prompts.value)

\* the failure of a prompt forgotten
RecordFailureDropped(failed, prompt) == failed

\* line 128
RecordFailure(failed, prompt) == Append(failed, prompt)

\* line 151
CheckpointDue(i, frequency) == i % frequency = 0

\* lines 152-154: the checkpoint file named after i
WriteCheckpoint(files, i, pairs) == files \cup {[i |-> i, records |-> pairs]}

\* lines 162-178: the final save, the statistics (line 168 divides by
\* len(prompts)) and the return.
FinishBatch(all, pairs, failed, files) ==
    /\ output_file' = ValidFile(pairs)
    /\ gen_pc' = IF Len(all) = 0 THEN "crashed" ELSE "done"
    /\ gen_i' = Len(all)
    /\ response_pairs' = pairs
    /\ failed_prompts' = failed
    /\ checkpoint_files' = files

\* generate_all_response_pairs, lines 107-119, up to the first API call
GenerateAllResponsePairs(all_prompts, max_prompts, frequency) ==
    /\ gen_pc = "idle"
    /\ prompts' = LimitPrompts(all_prompts, max_prompts)
    /\ checkpoint_frequency' = frequency
    /\ IF prompts' = << >>
       THEN FinishBatch(prompts', << >>, << >>, checkpoint_files)
       ELSE /\ gen_pc' = "running"
            /\ UNCHANGED <<gen_i, response_pairs, failed_prompts,
                           checkpoint_files, output_file>>
    /\ UNCHANGED <<label_vars, fmt_vars, split_vars>>

\* one turn of the loop, lines 119-160, and what follows the last turn
ProcessPrompt(outcome) ==
    /\ gen_pc = "running"
    /\ LET i == gen_i + 1
           prompt == prompts[i]
           responses == GenerateResponsePair(outcome)
           pairs == IF responses.ok
                    THEN Append(response_pairs,
                                Pair(prompt, responses.response_a,
                                     responses.response_b, i - 1))
                    ELSE response_pairs
           failed == IF responses.ok
                     THEN failed_prompts
                     ELSE RecordFailure(failed_prompts, prompt)
           files == IF responses.ok /\ CheckpointDue(i, checkpoint_frequency)
                    THEN WriteCheckpoint(checkpoint_files, i, pairs)
                    ELSE checkpoint_files
       IN  IF i = Len(prompts)
           THEN FinishBatch(prompts, pairs, failed, files)
           ELSE /\ gen_i' = i
                /\ response_pairs' = pairs
                /\ failed_prompts' = failed
                /\ checkpoint_files' = files
                /\ UNCHANGED <<gen_pc, output_file>>
    /\ UNCHANGED <<prompts, checkpoint_frequency, label_vars, fmt_vars, split_vars>>

InitGen ==
    /\ data = << >>
    /\ LabelIdle
    /\ fmt_in = << >>
    /\ fmt_include = FALSE
    /\ formatted = << >>
    /\ fmt_pc = "idle"
    /\ output_dir = NoOutput
    /\ SplitIdle
    /\ GenIdle

NextGen ==
    \/ \E all_prompts \in PromptLists, max_prompts \in MaxPromptsInputs,
          frequency \in CheckpointFrequencies :
            GenerateAllResponsePairs(all_prompts, max_prompts, frequency)
    \/ \E outcome \in ApiOutcomes : ProcessPrompt(outcome)

SpecGen == InitGen /\ [][NextGen]_vars

----------------------------------------------------------------------------
(* Properties *)

Range(seq) == { seq[k] : k \in DOMAIN seq }

SeqToBag(seq) ==
    [x \in Range(seq) |-> Cardinality({ k \in DOMAIN seq : seq[k] = x })]

QuitWords == {"q", "quit"}

\* C1: the step that records a label appends exactly one record, made from
\* the pair on display, whose preference is the reviewer's choice and whose
\* chosen/rejected follow it: a -> (response_a, response_b), b ->
\* (response_b, response_a), equal -> (response_a, response_b) with equal
\* set to true.
C1_AppendedRecordFollowsChoice ==
    [][pc = "await_reason" =>
        /\ preference \in {"a", "b", "equal"}
        /\ Len(labeled_data') = Len(labeled_data) + 1
        /\ SubSeq(labeled_data', 1, Len(labeled_data)) = labeled_data
        /\ LET item == labeled_data'[Len(labeled_data')]
               pair == data[idx + 1]
           IN  /\ item.prompt = pair.prompt
               /\ item.response_a = pair.response_a
               /\ item.response_b = pair.response_b
               /\ item.preference = preference
               /\ preference = "a" =>
                    item.chosen = pair.response_a /\ item.rejected = pair.response_b
               /\ preference = "b" =>
                    item.chosen = pair.response_b /\ item.rejected = pair.response_a
               /\ preference = "equal" =>
                    /\ item.chosen = pair.response_a
                    /\ item.rejected = pair.response_b
                    /\ "equal" \in DOMAIN item
                    /\ item.equal = TRUE]_vars

\* a record labeled b of a pair whose responses differ is in the collection
C1_Witness ==
    \E k \in DOMAIN labeled_data :
        /\ labeled_data[k].preference = "b"
        /\ labeled_data[k].response_a # labeled_data[k].response_b
        /\ labeled_data[k].chosen = labeled_data[k].response_b

C3_SplitsPartitionInput ==
    splits.ok =>
        /\ SeqToBag(splits.train) (+) SeqToBag(splits.validation)
              (+) SeqToBag(splits.test) = SeqToBag(formatted)
        /\ Range(splits.train) \cup Range(splits.validation)
              \cup Range(splits.test) = Range(formatted)
        /\ Cardinality(Range(formatted)) = Len(formatted) =>
              /\ Range(splits.train) \cap Range(splits.validation) = {}
              /\ Range(splits.train) \cap Range(splits.test) = {}
              /\ Range(splits.validation) \cap Range(splits.test) = {}

\* a split of three different records into three subsets of one
C3_Witness ==
    /\ splits.ok
    /\ Cardinality(Range(formatted)) = Len(formatted)
    /\ Len(splits.train) = 1
    /\ Len(splits.validation) = 1
    /\ Len(splits.test) = 1

\* C4: a step of a labeling session that ends with the process crashed (a
\* write of the progress file failed) leaves every record of the in-memory
\* collection in place.
C4_FailedSaveKeepsCollection ==
    [][(pc \in {"await_pref", "await_reason"} /\ pc' = "crashed") =>
        /\ Len(labeled_data') >= Len(labeled_data)
        /\ SubSeq(labeled_data', 1, Len(labeled_data)) = labeled_data]_vars

\* C5: quit at a question of a session that began with an empty collection
\* and has labeled k pairs ends the session with no record added, the
\* progress file holding exactly the k records, and a summary that reports k.
C5_QuitKeepsLabeled ==
    [][(/\ pc = "await_pref"
        /\ preference' \in QuitWords
        /\ Len(labeled_data) = labeled_this_session) =>
        /\ pc' = "menu"
        /\ labeled_data' = labeled_data
        /\ progress_file' = ValidFile(labeled_data)
        /\ Len(progress_file'.records) = labeled_this_session
        /\ summary'.ran
        /\ summary'.labeled_this_session = labeled_this_session]_vars

\* quit was answered at the second pair after the first was labeled
C5_Witness ==
    /\ pc = "menu"
    /\ preference \in QuitWords
    /\ summary.ran
    /\ summary.labeled_this_session = 1
    /\ summary.skipped = 0
    /\ Len(labeled_data) = 1
    /\ Len(progress_file.records) = 1
    /\ Len(data) = 2
    /\ labeled_data[1].prompt = data[1].prompt

C7_FinalSaveOnReturn ==
    (pc = "menu" /\ summary.ran) => progress_file = ValidFile(labeled_data)

\* a session that labeled a pair has ended at its end bound
C7_Witness ==
    /\ pc = "menu"
    /\ summary.ran
    /\ summary.labeled_this_session >= 1
    /\ preference \notin QuitWords
    /\ progress_file = ValidFile(labeled_data)

\* C8: the result of convert_to_standard_format holds no record marked equal
\* when include_equal is false, and as many records as the input when it is
\* true.
C8_EqualExclusion ==
    fmt_pc = "formatted" =>
        /\ ~fmt_include =>
              \A j \in DOMAIN formatted : formatted[j].metadata.equal = FALSE
        /\ fmt_include => Len(formatted) = Len(fmt_in)

\* records marked equal were left out and others kept
C8_Witness ==
    /\ fmt_pc = "formatted"
    /\ ~fmt_include
    /\ \E k \in DOMAIN fmt_in : "equal" \in DOMAIN fmt_in[k] /\ fmt_in[k].equal
    /\ formatted # << >>
    /\ Len(formatted) < Len(fmt_in)

\* the records of the labeled list that the formatter is to keep
C9_Kept ==
    SelectSeq(fmt_in,
              LAMBDA r : fmt_include \/ ~("equal" \in DOMAIN r /\ r.equal))

\* C9: after the formatting run on the progress file, the canonical records
\* are those of the kept labeled records in order, and each one whose
\* metadata.preference is a has the response_a of the pair it was labeled
\* from as chosen and its response_b as rejected.
C9_CanonicalFollowsPair ==
    fmt_pc \in {"formatted", "no_data"} =>
        /\ Len(formatted) = Len(C9_Kept)
        /\ \A j \in DOMAIN formatted :
              formatted[j].metadata.preference = "a" =>
                 \E i \in DOMAIN data :
                    /\ data[i].metadata.prompt_index = C9_Kept[j].metadata.prompt_index
                    /\ formatted[j].prompt = data[i].prompt
                    /\ formatted[j].chosen = data[i].response_a
                    /\ formatted[j].rejected = data[i].response_b

\* a canonical record with preference a of a pair whose responses differ
C9_Witness ==
    /\ fmt_pc = "formatted"
    /\ \E j \in DOMAIN formatted :
          /\ formatted[j].metadata.preference = "a"
          /\ formatted[j].chosen # formatted[j].rejected

\* C10: two calls of create_splits one after the other on the same input
\* with the same test_size, val_size and random_seed return the same three
\* subsets, element by element.
C10_SameArgumentsSameSplits ==
    (split_args.called /\ prev_args.called /\ split_args = prev_args) =>
        splits = prev_splits

\* the same successful split of three different records was made twice
C10_Witness ==
    /\ split_args.called
    /\ prev_args = split_args
    /\ split_args.random_seed = 42
    /\ split_args.test_size = 1
    /\ split_args.val_size = 1
    /\ splits.ok
    /\ prev_splits = splits
    /\ Cardinality(Range(formatted)) = 3

\* C11: create_splits with test_size 0.1 and val_size 0.1 on a list of one
\* canonical record succeeds and puts that record into exactly one of train,
\* validation and test.
C11_SingleRecordIsSplit ==
    (split_args.called /\ Len(formatted) = 1
        /\ split_args.test_size = 1 /\ split_args.val_size = 1)
    => /\ splits.ok
       /\ Len(splits.train) + Len(splits.validation) + Len(splits.test) = 1

\* C12: create_splits fails exactly when the fractions violate
\* 0 < test_size + val_size < 1, and succeeds for every pair inside.
C12_FailsExactlyOnBadFractions ==
    split_args.called
    => (splits.ok <=> (0 < split_args.test_size + split_args.val_size
                       /\ split_args.test_size + split_args.val_size < Tenth))

\* C13: save_progress is atomic: across every step, a failed or interrupted
\* save included, the progress file is either what it was before or a
\* complete file of the collection being saved.
C13_SaveIsAtomic ==
    [][progress_file' = progress_file \/ progress_file'.state = "valid"]_vars

AcceptedChoices == {"a", "b", "equal", "skip", "q", "quit"}

\* C14 (amended): at the preference question the session accepts exactly the
\* inputs a, b, equal, skip, quit and q, the short form of quit (lower-cased
\* and trimmed); any other input asks again for the same pair and changes
\* nothing: every step that leaves the question in another state has taken
\* one of the six.
C14_OnlyAcceptedChoicesAct ==
    [][pc = "await_pref"
        => /\ preference' \in AcceptedChoices
           /\ preference' \in {"a", "b", "equal"}
                => /\ pc' = "await_reason"
                   /\ UNCHANGED <<idx, labeled_data, labeled_this_session,
                                  skipped_count, progress_file>>]_vars

\* a session that the input q has ended
C14_Witness ==
    /\ pc = "menu"
    /\ summary.ran
    /\ preference = "q"

\* C14 as stated: the accepted inputs are a, b, equal, skip and quit only.
C14_FiveChoicesOnly ==
    [][pc = "await_pref" => preference' \in {"a", "b", "equal", "skip", "quit"}]_vars

\* C15: a session started with the default start index, the number of
\* labeled records, after an earlier session of the same run that was
\* started the same way, shows as its first pair the pair at the index at
\* which that session stopped.
C15_ResumesWhereStopped ==
    [][(/\ pc = "menu"
        /\ summary.ran
        /\ current_idx = Len(labeled_data) - summary.labeled_this_session
        /\ pc' = "await_pref"
        /\ current_idx' = Len(labeled_data))
       => idx' = stopped_at]_vars

\* the step of label_session that creates a record
RecordCreated ==
    /\ pc = "await_reason"
    /\ Len(labeled_data') = Len(labeled_data) + 1

NewRecord == labeled_data'[Len(labeled_data')]

\* C16 (amended): every record created by label_session has the key equal, set
\* to true, exactly when its preference is equal; a record whose preference
\* is a or b has no equal key (a reader takes the missing key as false).  The
\* pair (Q1, "Short.", "Long answer...") labeled a with empty reasoning
\* yields preference a, chosen "Short.", rejected "Long answer..." and no
\* equal key.
C16_EqualKeyOnlyOnEqual ==
    [][RecordCreated
        => /\ ("equal" \in DOMAIN NewRecord) <=> (NewRecord.preference = "equal")
           /\ Get(NewRecord, "equal", FALSE) = (NewRecord.preference = "equal")
           /\ (NewRecord.prompt = "Q1" /\ NewRecord.preference = "a")
                => /\ NewRecord.chosen = "Short."
                   /\ NewRecord.rejected = "Long answer..."
                   /\ NewRecord.reasoning = ""
                   /\ "equal" \notin DOMAIN NewRecord]_vars

\* the Q1 pair has been labeled a, and some pair has been labeled equal
C16_Witness ==
    /\ \E k \in DOMAIN labeled_data :
          /\ labeled_data[k].prompt = "Q1"
          /\ labeled_data[k].preference = "a"
          /\ labeled_data[k].chosen = "Short."
    /\ \E k \in DOMAIN labeled_data : labeled_data[k].preference = "equal"

\* C16 as stated: every created record carries a boolean equal field, true
\* exactly when the preference is equal.
C16_EqualFieldOnEveryRecord ==
    [][RecordCreated
        => /\ "equal" \in DOMAIN NewRecord
           /\ NewRecord.equal = (NewRecord.preference = "equal")]_vars

\* C17: a formatting run whose labeled input is a readable list that gives
\* no canonical record (an empty list, or only equal records with
\* include_equal false) ends with the "No data to format" message and exit
\* status 1, and has written no split file and no dataset card.
C17_NoCanonicalRecordsReported ==
    (/\ fmt_pc # "idle"
     /\ progress_file.state = "valid"
     /\ ConvertToStandardFormat(progress_file.records, fmt_include) = << >>)
    => /\ fmt_pc = "no_data"
       /\ output_dir = NoOutput

\* indices (from 1) of the processed prompts that have a pair
C18_PairPositions ==
    { response_pairs[k].metadata.prompt_index + 1 : k \in DOMAIN response_pairs }

\* the processed prompts without a pair, in input order
C18_PromptsWithoutPair ==
    LET positions == SelectSeq([j \in 1..gen_i |-> j],
                               LAMBDA j : j \notin C18_PairPositions)
    IN  [k \in DOMAIN positions |-> prompts[positions[k]]]

\* C18: a prompt for which either API call fails goes to the failure list
\* and the batch goes on: at every point each processed prompt is, by its
\* position, in exactly one of the pair list and the failure list, both in
\* input order, their lengths add up to the number of prompts processed, a
\* pair holds two generated responses, and a batch that returns has
\* processed every prompt.
C18_EveryPromptInOneList ==
    gen_pc \in {"running", "done"} =>
        /\ Len(response_pairs) + Len(failed_prompts) = gen_i
        /\ \A k \in DOMAIN response_pairs :
              /\ response_pairs[k].metadata.prompt_index + 1 \in 1..gen_i
              /\ response_pairs[k].prompt =
                    prompts[response_pairs[k].metadata.prompt_index + 1]
              /\ response_pairs[k].response_a # None
              /\ response_pairs[k].response_b # None
              /\ \A j \in DOMAIN response_pairs :
                    j < k => response_pairs[j].metadata.prompt_index
                               < response_pairs[k].metadata.prompt_index
        /\ failed_prompts = C18_PromptsWithoutPair
        /\ gen_pc = "done" => gen_i = Len(prompts)

\* a batch that went on after a failure and returned pairs and failures
C18_Witness ==
    /\ gen_pc = "done"
    /\ Len(prompts) = 3
    /\ Len(failed_prompts) = 1
    /\ Len(response_pairs) = 2
    /\ response_pairs[2].metadata.prompt_index = 2
    /\ response_pairs[1].metadata.prompt_index = 0

\* C19: the answer skip creates no record and asks for no reasoning.  When
\* a further pair of the range is left to show, the session is at that pair
\* (only pairs of the skip-set lie between) with the skip counter one higher
\* and with the labeled-this-session counter and the progress file as they
\* were; when none is left, the session ends by its final save and reports
\* one more skipped pair and the same number of labeled ones.
C19_SkipOnlyCountsAndAdvances ==
    [][(pc = "await_pref" /\ preference' = "skip")
        => /\ labeled_data' = labeled_data
           /\ pc' # "await_reason"
           /\ IF pc' = "await_pref"
              THEN /\ skipped_count' = skipped_count + 1
                   /\ labeled_this_session' = labeled_this_session
                   /\ progress_file' = progress_file
                   /\ idx' > idx
                   /\ \A j \in (idx + 1)..(idx' - 1) :
                         data[j + 1].prompt \in already_labeled_prompts
              ELSE /\ pc' = "menu"
                   /\ summary'.skipped = skipped_count + 1
                   /\ summary'.labeled_this_session = labeled_this_session
                   /\ progress_file' = ValidFile(labeled_data)]_vars

\* the pair after a skipped one is on display, nothing saved or recorded
C19_Witness ==
    /\ pc = "await_pref"
    /\ preference = "skip"
    /\ skipped_count = 1
    /\ idx = 1
    /\ labeled_this_session = 0
    /\ progress_file = NoFile

InSession == {"await_pref", "await_reason"}

\* C20: the pair on display in a session started with start_idx and
\* num_examples has an index from start_idx up to, and not including, the
\* smaller of start_idx + num_examples and len(data) (len(data) when
\* num_examples is not given); within a session the index on display only
\* grows, and stays the same only between the preference question and the
\* reasoning question of one pair; a record is created only while fewer
\* than num_examples have been created in the session.
C20_PresentedWithinEndBound ==
    [][/\ pc' \in InSession
          => /\ current_idx' <= idx'
             /\ idx' < Len(data')
             /\ num_examples'.kind = "int"
                   => idx' < current_idx' + num_examples'.value
       /\ (pc \in InSession /\ pc' \in InSession)
          => \/ idx' > idx
             \/ idx' = idx /\ pc = "await_pref" /\ pc' = "await_reason"
       /\ (RecordCreated /\ num_examples.kind = "int")
          => labeled_this_session + 1 <= num_examples.value]_vars

\* a session of one pair has ended at its end bound, before the end of data
C20_Witness ==
    /\ pc = "menu"
    /\ summary.ran
    /\ summary.labeled_this_session = 1
    /\ preference \in {"a", "b", "equal"}
    /\ current_idx = 0
    /\ stopped_at = 1
    /\ Len(data) = 2

\* the end bound of the session in progress
C21_EndBound ==
    IF num_examples.kind = "int"
    THEN Min(current_idx + num_examples.value, Len(data))
    ELSE Len(data)

\* C21: with a reviewer who sooner or later types a recognized choice at
\* each preference question and answers each reasoning question, a session
\* in progress reaches its end; a session is left only for the menu, with
\* the final save and the summary done, and then either quit was typed or
\* the loop has reached the end bound.
C21_SessionTerminates ==
    /\ (pc \in InSession) ~> (pc = "menu")
    /\ [][(pc \in InSession /\ pc' \notin InSession)
            => /\ pc' = "menu"
               /\ summary'.ran
               /\ progress_file' = ValidFile(labeled_data')
               /\ preference' \in QuitWords \/ stopped_at' = C21_EndBound]_vars

\* a session that went through both of its pairs to the end bound, no quit
C21_Witness ==
    /\ pc = "menu"
    /\ summary.ran
    /\ summary.labeled_this_session + summary.skipped = 2
    /\ preference \notin QuitWords
    /\ stopped_at = 2

IsPrefix(s, t) == Len(s) <= Len(t) /\ SubSeq(t, 1, Len(s)) = s

Constructed == {"menu", "await_pref", "await_reason"}

\* C22: once the tool is constructed, every step of its menu loop (label
\* sessions, statistics, review) leaves the labeled collection a prefix of
\* what it becomes: records are only appended at the end, none is changed
\* or removed.
C22_CollectionOnlyGrowsAtEnd ==
    [][(pc \in Constructed /\ pc' \in Constructed)
        => /\ IsPrefix(labeled_data, labeled_data')
           /\ Len(labeled_data') <= Len(labeled_data) + 1]_vars

\* a second session has appended its record after the record of the first
C22_Witness ==
    /\ pc = "menu"
    /\ Len(labeled_data) = 2
    /\ summary.ran
    /\ summary.labeled_this_session = 1
    /\ labeled_data[1].prompt # labeled_data[2].prompt

\* C23: a record that is in the progress file is in every later content of
\* the progress file, across sessions and restarts of the tool, whatever is
\* answered to the question at start-up.
C23_PersistedRecordsStay ==
    [][\A k \in DOMAIN progress_file.records :
          \E j \in DOMAIN progress_file'.records :
             progress_file'.records[j] = progress_file.records[k]]_vars

\* the file holds a prefix of the list `records`, and fewer records than
\* `frequency` are missing from it (none outside a session)
C24_LagBounded(file, records, where, frequency) ==
    /\ IsPrefix(file.records, records)
    /\ Len(records) - Len(file.records)
          < (IF where \in InSession THEN frequency ELSE 1)

DistinctPrompts(records) ==
    \A j, k \in DOMAIN records : j # k => records[j].prompt # records[k].prompt

\* C25: when the prompts of the input pairs are pairwise distinct (the
\* progress a tool loads then has pairwise distinct prompts as well), no two
\* records of the labeled collection have the same prompt, whatever
\* sessions the process has run.
C25_OneLabelPerPrompt ==
    (DistinctPrompts(data) /\ DistinctPrompts(progress_file.records))
        => DistinctPrompts(labeled_data)

\* a second session started at index 0 has passed over the pair labeled by
\* the first and labeled the other one
C25_Witness ==
    /\ pc = "menu"
    /\ DistinctPrompts(data)
    /\ Len(labeled_data) = 2
    /\ summary.ran
    /\ summary.labeled_this_session = 1
    /\ current_idx = 0

\* C26: after a session started as the menu starts it (start index = number
\* of labeled records) has run to the end of data, every input pair has a
\* labeled record or was answered skip in that session: the pairs without a
\* record are no more than the skips the session counted.
C26_SkippedPairsRevisited ==
    (/\ pc = "menu"
     /\ summary.ran
     /\ preference \notin QuitWords
     /\ current_idx = Len(labeled_data) - summary.labeled_this_session
     /\ stopped_at = Len(data))
    => Cardinality({ k \in DOMAIN data :
                        data[k].prompt \notin Prompts(labeled_data) })
          <= summary.skipped

\* C27: a call of convert_to_standard_format leaves its input list as it
\* was and returns one canonical record per kept input record, in the order
\* of the input: the j-th result carries the prompt, chosen, rejected and
\* the labeling fields of the j-th kept record.
C27_FormatterKeepsOrderAndInput ==
    [][/\ fmt_in' = fmt_in
       /\ Len(formatted') = Len(C9_Kept')
       /\ \A j \in DOMAIN formatted' :
             /\ formatted'[j].prompt = C9_Kept'[j].prompt
             /\ formatted'[j].chosen = C9_Kept'[j].chosen
             /\ formatted'[j].rejected = C9_Kept'[j].rejected
             /\ formatted'[j].metadata.preference
                   = Get(C9_Kept'[j], "preference", "unknown")
             /\ formatted'[j].metadata.reasoning
                   = Get(C9_Kept'[j], "reasoning", "")
             /\ formatted'[j].metadata.equal = Get(C9_Kept'[j], "equal", FALSE)]_vars

\* an equal record between two others was dropped, the two kept in order
C27_Witness ==
    /\ fmt_pc = "formatted"
    /\ ~fmt_include
    /\ Len(fmt_in) = 3
    /\ Get(fmt_in[2], "equal", FALSE)
    /\ Len(formatted) = 2
    /\ formatted[1].prompt = fmt_in[1].prompt
    /\ formatted[2].prompt = fmt_in[3].prompt
    /\ formatted[1].prompt # formatted[2].prompt

\* C28: whenever create_splits succeeds on n records, |test| differs from
\* n * test_size by less than one record, |validation| differs from
\* (n - |test|) * val_size / (1 - test_size) by less than one record, and
\* train is not empty (the fractions in tenths, the inequalities multiplied
\* out).
C28_SplitSizesWithinOneRecord ==
    (split_args.called /\ splits.ok) =>
        LET n == Len(formatted)
            test_size == split_args.test_size
            val_size == split_args.val_size
            rest == n - Len(splits.test)
        IN  /\ Len(splits.test) * Tenth - n * test_size < Tenth
            /\ n * test_size - Len(splits.test) * Tenth < Tenth
            /\ Len(splits.validation) * (Tenth - test_size) - rest * val_size
                  < Tenth - test_size
            /\ rest * val_size - Len(splits.validation) * (Tenth - test_size)
                  < Tenth - test_size
            /\ Len(splits.train) >= 1

\* the pairs generated up to the prompt at position i
C29_PairsUpTo(i) ==
    SelectSeq(response_pairs, LAMBDA pair : pair.metadata.prompt_index < i)

\* C29: once the prompt at a position that is a multiple of
\* checkpoint_frequency has been processed, the checkpoint file of that
\* position has been written and holds all the pairs generated up to it;
\* and when the batch is over the output file holds all generated pairs.
C29_CheckpointAtEveryMultiple ==
    /\ gen_pc \in {"running", "done", "crashed"} =>
          \A i \in 1..gen_i :
              CheckpointDue(i, checkpoint_frequency) =>
                  [i |-> i, records |-> C29_PairsUpTo(i)] \in checkpoint_files
    /\ gen_pc \in {"done", "crashed"} => output_file = ValidFile(response_pairs)

============================================================================
